---- MODULE Spec2Model ----
(***************************************************************************)
(* Model of sqlx-migrate: Migrator::migrate reconciling a list of          *)
(* Migration records against the "migrations" ledger table of a Postgres  *)
(* database, applying each pending migration in its own transaction.      *)
(*                                                                         *)
(* Two callers (Procs) run migrate against one database.  Every database   *)
(* round trip of the code (ensure_table, get_applied_migrations, begin,    *)
(* each tx.execute, the ledger INSERT, commit) is one atomic step, so that *)
(* calls interleave exactly where the awaits of the code let them.         *)
(*                                                                         *)
(* The loader (embed!/parse_dir, Migration::try_from) is modelled too: a   *)
(* caller's Migrator is either made with Migrator::new (Spec, SpecFaulty)  *)
(* or built by the loader from a migrations directory (SpecLoader).        *)
(***************************************************************************)
EXTENDS Integers, Sequences, FiniteSets, TLC

\* ---------------------------------------------------------------- bounds
MaxList == 2      \* longest migration list handed to Migrator::new
MaxCalls == 2     \* migrate calls made in one behaviour (all callers)

Procs == {"p1", "p2"}

\* ------------------------------------------------------- script text, SQL
\* A script is a sequence of characters.  The statements the modelled
\* database understands are one character long:
\*   "C"  CREATE TABLE t(x INT)      "E"  CREATE TABLE IF NOT EXISTS t(x INT)
\*   "I"  INSERT INTO t VALUES (1)   anything else ("X") is rejected
Chars == {"C", "E", "I", "X", " ", ";"}

\* str::split(";"): the segments between the delimiters, empty ones included
RECURSIVE SplitFrom(_, _, _)
SplitFrom(s, i, acc) ==
    IF i > Len(s) THEN <<acc>>
    ELSE IF s[i] = ";" THEN <<acc>> \o SplitFrom(s, i + 1, <<>>)
    ELSE SplitFrom(s, i + 1, Append(acc, s[i]))

Split(s) == SplitFrom(s, 1, <<>>)

\* str::trim(): leading and trailing whitespace removed
RECURSIVE TrimStart(_)
TrimStart(s) ==
    IF s # <<>> /\ Head(s) = " " THEN TrimStart(Tail(s)) ELSE s

RECURSIVE TrimEnd(_)
TrimEnd(s) ==
    IF s # <<>> /\ s[Len(s)] = " " THEN TrimEnd(SubSeq(s, 1, Len(s) - 1)) ELSE s

Trim(s) == TrimEnd(TrimStart(s))

\* Faulty variant: every segment is executed, the blank ones too
IsSegment(seg) == TRUE

\* the guard of the statement loop: !stmt.trim().is_empty()
IsStatement(seg) == Trim(seg) # <<>>

\* the first index >= k of a segment the loop executes, Len(segs) + 1 if none
RECURSIVE NextStmt(_, _)
NextStmt(segs, k) ==
    IF k > Len(segs) THEN k
    ELSE IF IsStatement(segs[k]) THEN k
    ELSE NextStmt(segs, k + 1)

\* the segments of a script the loop executes, in order
Statements(sql) == SelectSeq(Split(sql), IsStatement)

\* ------------------------------------------------------------- checksum
\* format!("{:x}", Sha256::digest(sql)): a digest of the exact text.  The
\* model keeps what the code relies on, that different texts get different
\* digests: the text read as a number in base 7.
CharCode(c) ==
    CASE c = "C" -> 1 [] c = "E" -> 2 [] c = "I" -> 3
      [] c = "X" -> 4 [] c = " " -> 5 [] c = ";" -> 6

RECURSIVE Sha256Hex(_)
Sha256Hex(sql) ==
    IF sql = <<>> THEN 0
    ELSE CharCode(sql[Len(sql)]) + 7 * Sha256Hex(SubSeq(sql, 1, Len(sql) - 1))

\* ------------------------------------------------------ Migration records
Migration(v, n, s) ==
    [version |-> v, name |-> n, sql |-> s, checksum |-> Sha256Hex(s)]

\* the records a caller may put in a list: v1 creates t, v2 creates t if
\* it is missing and inserts one row, and an edited v2 whose second statement
\* is invalid
Pool ==
    { Migration(1, "create_t", <<" ", "C", ";", " ">>),
      Migration(2, "seed_t", <<"E", ";", "I", ";">>),
      Migration(2, "seed_t", <<"E", ";", "X", ";">>) }

Lists == UNION { [1..n -> Pool] : n \in 0..MaxList }

\* a total order on lists: shorter first, then by the records' checksums
RECURSIVE ListLeq(_, _)
ListLeq(a, b) ==
    IF Len(a) # Len(b) THEN Len(a) < Len(b)
    ELSE IF a = <<>> THEN TRUE
    ELSE IF Head(a).checksum # Head(b).checksum
    THEN Head(a).checksum < Head(b).checksum
    ELSE ListLeq(Tail(a), Tail(b))

\* ------------------------------------------------------------- the loader
\* A file name is a sequence of characters.
Digits == {"0", "1", "2", "3", "4", "5", "6", "7", "8", "9"}

\* Faulty variant: the name class takes upper case letters too
AnyLetter ==
    {"a", "b", "c", "d", "e", "f", "g", "h", "i", "j", "k", "l", "m", "n",
     "o", "p", "q", "r", "s", "t", "u", "v", "w", "x", "y", "z", "_",
     "A", "B", "C", "D", "E", "F", "G", "H", "I", "J", "K", "L", "M", "N",
     "O", "P", "Q", "R", "S", "T", "U", "V", "W", "X", "Y", "Z"}

\* the class [a-z_] of the name group
NameChars ==
    {"a", "b", "c", "d", "e", "f", "g", "h", "i", "j", "k", "l", "m", "n",
     "o", "p", "q", "r", "s", "t", "u", "v", "w", "x", "y", "z", "_"}

\* the number of leading digits of a file name
RECURSIVE LeadingDigits(_)
LeadingDigits(s) ==
    IF s # <<>> /\ Head(s) \in Digits THEN 1 + LeadingDigits(Tail(s)) ELSE 0

\* FILENAME_REGEX.captures(file_name) for ^([0-9]+)_([a-z_]+)\.sql$: the
\* groups version and name, or <<>> when the name does not match.  A digit
\* is no name character and "_" no digit, so the version group is the run of
\* leading digits and the name group all that stands before the final ".sql"
FilenameRegex(s) ==
    LET n == LeadingDigits(s)
        e == Len(s) - 4
    IN IF /\ n >= 1
          /\ e >= n + 2
          /\ s[n + 1] = "_"
          /\ SubSeq(s, e + 1, Len(s)) = <<".", "s", "q", "l">>
          /\ \A i \in (n + 2)..e : s[i] \in NameChars
       THEN <<[version |-> SubSeq(s, 1, n), name |-> SubSeq(s, n + 2, e)]>>
       ELSE <<>>

\* i64::MAX, 9223372036854775807, digit by digit
I64MaxDigits ==
    <<"9", "2", "2", "3", "3", "7", "2", "0", "3", "6",
      "8", "5", "4", "7", "7", "5", "8", "0", "7">>

DigitValue(c) ==
    CASE c = "0" -> 0 [] c = "1" -> 1 [] c = "2" -> 2 [] c = "3" -> 3
      [] c = "4" -> 4 [] c = "5" -> 5 [] c = "6" -> 6 [] c = "7" -> 7
      [] c = "8" -> 8 [] c = "9" -> 9

RECURSIVE StripZeros(_)
StripZeros(ds) ==
    IF Len(ds) > 1 /\ Head(ds) = "0" THEN StripZeros(Tail(ds)) ELSE ds

\* a > b for two digit strings of one length
RECURSIVE DigitsGreater(_, _)
DigitsGreater(a, b) ==
    IF a = <<>> THEN FALSE
    ELSE IF Head(a) # Head(b) THEN DigitValue(Head(a)) > DigitValue(Head(b))
    ELSE DigitsGreater(Tail(a), Tail(b))

RECURSIVE DigitsValue(_)
DigitsValue(ds) ==
    IF ds = <<>> THEN 0
    ELSE DigitValue(ds[Len(ds)]) + 10 * DigitsValue(SubSeq(ds, 1, Len(ds) - 1))

\* str::parse::<i64>() of a run of digits: the number, or <<>> for the
\* ParseIntError of a number above i64::MAX
ParseI64(ds) ==
    LET d == StripZeros(ds)
    IN IF \/ Len(d) > Len(I64MaxDigits)
          \/ Len(d) = Len(I64MaxDigits) /\ DigitsGreater(d, I64MaxDigits)
       THEN <<>>
       ELSE <<DigitsValue(d)>>

\* a directory entry: its file name, and the text read_to_string gives
\* (readable FALSE: the read fails, as for a subdirectory)
Entry(fn, text, ok) == [file_name |-> fn, sql |-> text, readable |-> ok]

\* Migration::try_from(entry): the record, or the error
TryFrom(entry) ==
    LET cap == FilenameRegex(entry.file_name)
    IN IF cap = <<>> THEN [err |-> "FilenameError"]
       ELSE LET version == ParseI64(cap[1].version)
            IN IF version = <<>> THEN [err |-> "ParseIntError"]
               ELSE IF ~entry.readable THEN [err |-> "IOError"]
               ELSE [err |-> "none",
                     m |-> Migration(version[1], cap[1].name, entry.sql)]

\* Faulty variant: the records stay in the order of enumeration
SortKept(l) == l

\* migrations.sort_by_key(|m| m.version): a stable sort
RECURSIVE SortByKey(_)
SortByKey(l) ==
    IF l = <<>> THEN <<>>
    ELSE LET init == SortByKey(SubSeq(l, 1, Len(l) - 1))
             x == l[Len(l)]
             n == Cardinality({i \in 1..Len(init) : init[i].version <= x.version})
         IN SubSeq(init, 1, n) \o <<x>> \o SubSeq(init, n + 1, Len(init))

\* parse_dir: every entry converted in the order read_dir yields them, the
\* first error unwrapped into a panic; otherwise the sorted records
ParseDir(d) ==
    LET r == [i \in 1..Len(d) |-> TryFrom(d[i])]
        bad == {i \in 1..Len(d) : r[i].err # "none"}
    IN IF bad # {}
       THEN [panic |-> r[CHOOSE i \in bad : \A j \in bad : i <= j].err]
       ELSE [panic |-> "none", list |-> SortByKey([i \in 1..Len(d) |-> r[i].m])]

\* the files a migrations directory may hold
Files ==
    << Entry(<<"1", "_", "c", ".", "s", "q", "l">>, <<"E", ";">>, TRUE),
       Entry(<<"2", "_", "s", ".", "s", "q", "l">>, <<"E", ";", "I", ";">>, TRUE),
       Entry(<<"2", "_", "s", ".", "s", "q", "l">>, <<"E", ";", "X", ";">>, TRUE),
       Entry(<<"0", "2", "_", "z", ".", "s", "q", "l">>, <<"E", ";", "I", ";">>, TRUE),
       Entry(<<"1", "_", "C", ".", "s", "q", "l">>, <<"E", ";">>, TRUE),
       Entry(<<"9", "2", "2", "3", "3", "7", "2", "0", "3", "6", "8", "5", "4",
               "7", "7", "5", "8", "0", "8", "_", "c", ".", "s", "q", "l">>,
             <<"E", ";">>, TRUE),
       Entry(<<"3", "_", "d", ".", "s", "q", "l">>, <<>>, FALSE) >>

FileNo(e) == CHOOSE i \in 1..Len(Files) : Files[i] = e

\* the directories: up to MaxList files of different names, in any order of
\* enumeration
Dirs ==
    LET F == {Files[i] : i \in 1..Len(Files)}
    IN {d \in UNION { [1..n -> F] : n \in 0..MaxList } :
           \A i, j \in 1..Len(d) : d[i].file_name = d[j].file_name => i = j}

\* a total order on directories
RECURSIVE DirLeq(_, _)
DirLeq(a, b) ==
    IF Len(a) # Len(b) THEN Len(a) < Len(b)
    ELSE IF a = <<>> THEN TRUE
    ELSE IF Head(a) # Head(b) THEN FileNo(Head(a)) < FileNo(Head(b))
    ELSE DirLeq(Tail(a), Tail(b))

\* ------------------------------------------------------------------ state
VARIABLES
    \* the database, committed state
    tableExists,   \* the ledger table "migrations" exists
    ledger,        \* its rows [version, name, checksum], in commit order
    tExists,       \* table t exists
    tRows,         \* number of rows of t
    effects,       \* every committed script statement, [version, stmt], in order
    \* one migrate call per caller
    pc,            \* where the caller's migrate call stands
    migrations,    \* Migrator.migrations of the caller's Migrator
    current,       \* the ledger as loaded by get_applied_migrations
    idx,           \* position of the for loop in migrations
    stmtIdx,       \* position of the statement loop in the split script
    tx,            \* the caller's open transaction and its uncommitted writes
    result,        \* what the caller's last migrate call returned
    \* history
    log,           \* database operations of the caller's current call, in order
    prev,          \* result of the call before, when this call repeats it
    calls,         \* migrate calls started
    faults,        \* transport failures injected
    \* the loader
    dir,           \* the caller's migrations directory, as read_dir yields it
    loader         \* how the caller's Migrator came about

dbVars == <<tableExists, ledger, tExists, tRows, effects>>
callVars == <<pc, migrations, current, idx, stmtIdx, tx, result>>
histVars == <<log, prev, calls, faults>>
loaderVars == <<dir, loader>>
vars == <<dbVars, callVars, histVars, loaderVars>>

NoTx == [open |-> FALSE, created |-> FALSE, rows |-> 0, stmts |-> <<>>, ins |-> <<>>]

Init ==
    /\ tableExists = FALSE
    /\ ledger = <<>>
    /\ tExists = FALSE
    /\ tRows = 0
    /\ effects = <<>>
    /\ pc = [p \in Procs |-> "idle"]
    \* the two callers are interchangeable: one of each mirrored pair of
    \* Migrators is enough
    /\ migrations \in {f \in [Procs -> Lists] : ListLeq(f["p1"], f["p2"])}
    /\ current = [p \in Procs |-> <<>>]
    /\ idx = [p \in Procs |-> 1]
    /\ stmtIdx = [p \in Procs |-> 1]
    /\ tx = [p \in Procs |-> NoTx]
    /\ result = [p \in Procs |-> "none"]
    /\ log = [p \in Procs |-> <<>>]
    /\ prev = [p \in Procs |-> "n/a"]
    /\ calls = 0
    /\ faults = 0
    \* the Migrators were made with Migrator::new, no directory read
    /\ dir = [p \in Procs |-> <<>>]
    /\ loader = [p \in Procs |-> "new"]

\* ---------------------------------------------------------------- helpers
Event(op, i) == [op |-> op, pos |-> i]

\* SELECT version, checksum FROM migrations ORDER BY version
RECURSIVE OrderByVersion(_)
OrderByVersion(rows) ==
    IF rows = {} THEN <<>>
    ELSE LET r == CHOOSE x \in rows : \A y \in rows : x.version <= y.version
         IN <<[version |-> r.version, checksum |-> r.checksum]>>
                \o OrderByVersion(rows \ {r})

Rows(l) == {l[i] : i \in 1..Len(l)}

\* Faulty variant: the loop walks the list re-sorted by version
RECURSIVE SortedByVersion(_)
SortedByVersion(l) ==
    IF l = <<>> THEN <<>>
    ELSE LET i == CHOOSE x \in 1..Len(l) :
                     \A y \in 1..Len(l) : l[x].version <= l[y].version
         IN <<l[i]>> \o SortedByVersion(SubSeq(l, 1, i - 1)
                                          \o SubSeq(l, i + 1, Len(l)))

CurSorted(p) == SortedByVersion(migrations[p])[idx[p]]

\* the migration the for loop of the caller is at, and its split script
Cur(p) == migrations[p][idx[p]]
Segs(p) == Split(Cur(p).sql)

\* Faulty variant: the lookup never finds an applied record
FindNothing(cur, v) == <<>>

\* Faulty variant: the lookup reads the ledger as it is now, not as loaded
FindFresh(cur, v) ==
    LET I == {i \in 1..Len(ledger) : ledger[i].version = v}
    IN IF I = {} THEN <<>>
       ELSE <<[version |-> v, checksum |-> ledger[CHOOSE i \in I : TRUE].checksum]>>

\* Faulty variant: the lookup takes the first row of the ledger, whatever its
\* version
FindFirst(cur, v) == IF cur = <<>> THEN <<>> ELSE <<cur[1]>>

\* current.iter().find(|a| a.version == v): the first match, <<>> for None
Find(cur, v) ==
    LET I == {i \in 1..Len(cur) : cur[i].version = v}
    IN IF I = {} THEN <<>>
       ELSE <<cur[CHOOSE i \in I : \A j \in I : i <= j]>>

\* `return Err(e)` / `?` / `Ok(())`: the call ends; its locals are dropped,
\* and dropping a transaction still open rolls it back
Return(p, r) ==
    /\ pc' = [pc EXCEPT ![p] = "idle"]
    /\ result' = [result EXCEPT ![p] = r]
    /\ tx' = [tx EXCEPT ![p] = NoTx]
    /\ stmtIdx' = [stmtIdx EXCEPT ![p] = 1]

\* Faulty variant: the error is swallowed and the call reports success
Swallow(p) == Return(p, "Ok")

\* Faulty variant: a failed apply is retried: the migration is begun again
Retry(p) ==
    IF tx[p].open
    THEN /\ pc' = [pc EXCEPT ![p] = "begin"]
         /\ tx' = [tx EXCEPT ![p] = NoTx]
         /\ stmtIdx' = [stmtIdx EXCEPT ![p] = 1]
         /\ UNCHANGED result
    ELSE Return(p, "SQLXError")

\* Faulty variant: the database error is reported as the checksum error
PropagateAsChecksum(p) == Return(p, "ChecksumError")

\* the `?` after a database round trip: its error ends the call
Propagate(p) == Return(p, "SQLXError")

\* ---------------------------------------------------------------- actions
\* embed!(dir), expanded at compile time: parse_dir panics and no program is
\* built, or the expansion is Migrator::new on the sorted records
Embed(p) ==
    LET r == ParseDir(dir[p])
    IN /\ loader[p] = "pending"
       /\ IF r.panic # "none"
          THEN /\ loader' = [loader EXCEPT ![p] = r.panic]
               /\ UNCHANGED migrations
          ELSE /\ loader' = [loader EXCEPT ![p] = "built"]
               /\ migrations' = [migrations EXCEPT ![p] = r.list]
       /\ UNCHANGED <<dbVars, pc, current, idx, stmtIdx, tx, result, histVars, dir>>

\* Migrator::migrate is called on the caller's Migrator, once there is one
Call(p) ==
    /\ pc[p] = "idle"
    /\ loader[p] \in {"new", "built"}
    /\ calls < MaxCalls
    /\ prev' = [prev EXCEPT ![p] =
         IF calls = 1 /\ \E q \in Procs : /\ result[q] # "none"
                                          /\ pc[q] = "idle"
                                          /\ migrations[q] = migrations[p]
         THEN (CHOOSE r \in {result[q] : q \in Procs} : r # "none")
         ELSE "n/a"]
    /\ pc' = [pc EXCEPT ![p] = "ensure"]
    /\ result' = [result EXCEPT ![p] = "none"]
    /\ current' = [current EXCEPT ![p] = <<>>]
    /\ idx' = [idx EXCEPT ![p] = 1]
    /\ stmtIdx' = [stmtIdx EXCEPT ![p] = 1]
    /\ log' = [log EXCEPT ![p] = <<>>]
    /\ calls' = calls + 1
    /\ UNCHANGED <<dbVars, migrations, loaderVars, tx, faults>>

\* Faulty variant: the table is not created
EnsureTableSkipped(p) ==
    /\ pc[p] = "ensure"
    /\ pc' = [pc EXCEPT ![p] = "load"]
    /\ log' = [log EXCEPT ![p] = Append(@, Event("ensure", 0))]
    /\ UNCHANGED <<dbVars, migrations, loaderVars, current, idx, stmtIdx, tx, result, prev, calls, faults>>

\* Faulty variant: the table is dropped and created anew on every run
EnsureTableRecreated(p) ==
    /\ pc[p] = "ensure"
    /\ tableExists' = TRUE
    /\ ledger' = <<>>
    /\ pc' = [pc EXCEPT ![p] = "load"]
    /\ log' = [log EXCEPT ![p] = Append(@, Event("ensure", 0))]
    /\ UNCHANGED <<tExists, tRows, effects, migrations, loaderVars, current, idx, stmtIdx,
                   tx, result, prev, calls, faults>>

\* ensure_table: CREATE TABLE IF NOT EXISTS migrations (...)
EnsureTable(p) ==
    /\ pc[p] = "ensure"
    /\ tableExists' = TRUE
    /\ pc' = [pc EXCEPT ![p] = "load"]
    /\ log' = [log EXCEPT ![p] = Append(@, Event("ensure", 0))]
    /\ UNCHANGED <<ledger, tExists, tRows, effects, migrations, loaderVars, current, idx,
                   stmtIdx, tx, result, prev, calls, faults>>

\* get_applied_migrations: the ledger of this moment, kept for the whole
\* call; the SELECT is rejected when the table is missing
GetAppliedMigrations(p) ==
    /\ pc[p] = "load"
    /\ log' = [log EXCEPT ![p] = Append(@, Event("load", 0))]
    /\ IF tableExists
       THEN /\ current' = [current EXCEPT ![p] = OrderByVersion(Rows(ledger))]
            /\ pc' = [pc EXCEPT ![p] = "loop"]
            /\ UNCHANGED <<stmtIdx, tx, result>>
       ELSE /\ Propagate(p)
            /\ UNCHANGED current
    /\ UNCHANGED <<dbVars, migrations, loaderVars, idx, prev, calls, faults>>

\* Faulty variant: the checksums are not compared
ChecksumIgnored(a, m) == FALSE

\* Faulty variant: an applied migration never passes the comparison
ChecksumAlwaysDiffers(a, m) == TRUE

\* a.checksum != migration.checksum
ChecksumDiffers(a, m) == a.checksum # m.checksum

\* Faulty variant: all checksums of the list are verified before anything is
\* applied
ReconcileUpFront(p) ==
    /\ pc[p] = "loop"
    /\ IF \E k \in 1..Len(migrations[p]) :
            LET a == Find(current[p], migrations[p][k].version)
            IN a # <<>> /\ ChecksumDiffers(a[1], migrations[p][k])
       THEN /\ Return(p, "ChecksumError")
            /\ UNCHANGED idx
       ELSE IF idx[p] > Len(migrations[p])
       THEN /\ Return(p, "Ok")
            /\ UNCHANGED idx
       ELSE IF Find(current[p], Cur(p).version) = <<>>
       THEN /\ pc' = [pc EXCEPT ![p] = "begin"]
            /\ UNCHANGED <<idx, result, tx, stmtIdx>>
       ELSE /\ idx' = [idx EXCEPT ![p] = @ + 1]
            /\ UNCHANGED <<pc, result, tx, stmtIdx>>
    /\ UNCHANGED <<dbVars, migrations, loaderVars, current, histVars>>

\* one turn of `for migration in &self.migrations`, or Ok(()) after the last
Reconcile(p) ==
    /\ pc[p] = "loop"
    /\ IF idx[p] > Len(migrations[p])
       THEN /\ Return(p, "Ok")
            /\ UNCHANGED idx
       ELSE LET a == Find(current[p], Cur(p).version)
            IN IF a = <<>>
               THEN /\ pc' = [pc EXCEPT ![p] = "begin"]
                    /\ UNCHANGED <<idx, result, tx, stmtIdx>>
               ELSE IF ChecksumDiffers(a[1], Cur(p))
               THEN /\ Return(p, "ChecksumError")
                    /\ UNCHANGED idx
               ELSE /\ idx' = [idx EXCEPT ![p] = @ + 1]
                    /\ UNCHANGED <<pc, result, tx, stmtIdx>>
    /\ UNCHANGED <<dbVars, migrations, loaderVars, current, histVars>>

\* apply_migration: db.begin(), then on to the first statement of the script
Begin(p) ==
    LET segs == Segs(p)
        first == NextStmt(segs, 1)
    IN /\ pc[p] = "begin"
       /\ tx' = [tx EXCEPT ![p] = [NoTx EXCEPT !.open = TRUE]]
       /\ stmtIdx' = [stmtIdx EXCEPT ![p] = first]
       /\ pc' = [pc EXCEPT ![p] = IF first > Len(segs) THEN "insert" ELSE "exec"]
       /\ log' = [log EXCEPT ![p] = Append(@, Event("begin", idx[p]))]
       /\ UNCHANGED <<dbVars, migrations, loaderVars, current, idx, result, prev, calls,
                      faults>>

\* what the database answers to one statement run inside the caller's
\* transaction: "wait" while another open transaction holds the name t
Answer(p, seg) ==
    LET s == Trim(seg)
        held == \E q \in Procs \ {p} : tx[q].open /\ tx[q].created
    IN IF s = <<"C">>
       THEN IF held THEN "wait"
            ELSE IF tExists \/ tx[p].created THEN "error"
            ELSE "ok"
       ELSE IF s = <<"E">>
       THEN IF held THEN "wait" ELSE "ok"
       ELSE IF s = <<"I">>
       THEN IF tExists \/ tx[p].created THEN "ok" ELSE "error"
       ELSE "error"

\* the uncommitted writes of the transaction after the statement
Written(t, v, seg) ==
    [t EXCEPT !.created = @ \/ Trim(seg) = <<"C">>
                            \/ (Trim(seg) = <<"E">> /\ ~tExists),
              !.rows = @ + (IF Trim(seg) = <<"I">> THEN 1 ELSE 0),
              !.stmts = Append(@, [version |-> v, stmt |-> seg])]

\* Faulty variant: the statement runs on the pool, outside the transaction: what
\* it writes is committed at once
ExecuteAutocommit(p) ==
    /\ pc[p] = "exec"
    /\ Answer(p, Segs(p)[stmtIdx[p]]) # "wait"
    /\ log' = [log EXCEPT ![p] = Append(@, Event("exec", idx[p]))]
    /\ IF Answer(p, Segs(p)[stmtIdx[p]]) = "ok"
       THEN /\ effects' = Append(effects, [version |-> Cur(p).version,
                                           stmt |-> Segs(p)[stmtIdx[p]]])
            /\ tExists' = (tExists \/ Trim(Segs(p)[stmtIdx[p]])
                                        \in {<<"C">>, <<"E">>})
            /\ tRows' = tRows + (IF Trim(Segs(p)[stmtIdx[p]]) = <<"I">>
                                 THEN 1 ELSE 0)
            /\ stmtIdx' = [stmtIdx EXCEPT ![p] = NextStmt(Segs(p), @ + 1)]
            /\ pc' = [pc EXCEPT ![p] =
                        IF NextStmt(Segs(p), stmtIdx[p] + 1) > Len(Segs(p))
                        THEN "insert" ELSE "exec"]
            /\ UNCHANGED <<result, tx>>
       ELSE /\ Propagate(p)
            /\ UNCHANGED <<effects, tExists, tRows>>
    /\ UNCHANGED <<tableExists, ledger, migrations, loaderVars, current, idx, prev, calls, faults>>

\* tx.execute(sqlx::query(&stmt)) for the next non-blank segment
Execute(p) ==
    LET segs == Segs(p)
        seg == segs[stmtIdx[p]]
        next == NextStmt(segs, stmtIdx[p] + 1)
        answer == Answer(p, seg)
    IN /\ pc[p] = "exec"
       /\ answer # "wait"
       /\ log' = [log EXCEPT ![p] = Append(@, Event("exec", idx[p]))]
       /\ IF answer = "ok"
          THEN /\ tx' = [tx EXCEPT ![p] = Written(@, Cur(p).version, seg)]
               /\ stmtIdx' = [stmtIdx EXCEPT ![p] = next]
               /\ pc' = [pc EXCEPT ![p] =
                           IF next > Len(segs) THEN "insert" ELSE "exec"]
               /\ UNCHANGED result
          ELSE Propagate(p)
       /\ UNCHANGED <<dbVars, migrations, loaderVars, current, idx, prev, calls, faults>>

\* Faulty variant: the name is not bound
LedgerRowNameless(m) ==
    [version |-> m.version, name |-> <<>>, checksum |-> m.checksum]

\* the row the INSERT binds: version, name, checksum of the migration
LedgerRow(m) ==
    [version |-> m.version, name |-> m.name, checksum |-> m.checksum]

\* Faulty variant: version is no primary key: a second row of it is accepted
KeyFree(v) == FALSE

\* Faulty variant: an uncommitted row of another transaction does not hold the key
KeyUnlocked(p, v) == FALSE

\* the primary key of the ledger: a committed row of the version rejects the
\* INSERT, an uncommitted one of another transaction makes it wait
KeyTaken(v) == \E i \in 1..Len(ledger) : ledger[i].version = v
KeyLocked(p, v) ==
    \E q \in Procs \ {p} :
        tx[q].open /\ tx[q].ins # <<>> /\ tx[q].ins[1].version = v

\* INSERT INTO migrations (version, name, checksum) VALUES ($1, $2, $3)
InsertLedger(p) ==
    /\ pc[p] = "insert"
    /\ ~KeyLocked(p, Cur(p).version)
    /\ log' = [log EXCEPT ![p] = Append(@, Event("insert", idx[p]))]
    /\ IF KeyTaken(Cur(p).version)
       THEN Propagate(p)
       ELSE /\ tx' = [tx EXCEPT ![p].ins = <<LedgerRow(Cur(p))>>]
            /\ pc' = [pc EXCEPT ![p] = "commit"]
            /\ UNCHANGED <<result, stmtIdx>>
    /\ UNCHANGED <<dbVars, migrations, loaderVars, current, idx, prev, calls, faults>>

\* tx.commit(): the statements' writes and the ledger row become visible
\* together, and the for loop moves on
Commit(p) ==
    /\ pc[p] = "commit"
    /\ ledger' = ledger \o tx[p].ins
    /\ effects' = effects \o tx[p].stmts
    /\ tExists' = (tExists \/ tx[p].created)
    /\ tRows' = tRows + tx[p].rows
    /\ tx' = [tx EXCEPT ![p] = NoTx]
    /\ idx' = [idx EXCEPT ![p] = @ + 1]
    /\ pc' = [pc EXCEPT ![p] = "loop"]
    /\ log' = [log EXCEPT ![p] = Append(@, Event("commit", idx[p]))]
    /\ UNCHANGED <<tableExists, migrations, loaderVars, current, stmtIdx, result, prev, calls, faults>>

\* any of the database round trips fails (connection lost, timeout): `?`
\* returns the sqlx error and the dropped transaction is rolled back.  A
\* fault ends the call, so there are no more faults than calls
DbFault(p) ==
    /\ pc[p] \in {"ensure", "load", "begin", "exec", "insert", "commit"}
    /\ faults' = faults + 1
    /\ Propagate(p)
    /\ log' = [log EXCEPT ![p] = Append(@, Event("fault", 0))]
    /\ UNCHANGED <<dbVars, migrations, loaderVars, current, idx, prev, calls>>

Next ==
    \E p \in Procs :
        \/ Call(p)
        \/ EnsureTable(p)
        \/ GetAppliedMigrations(p)
        \/ Reconcile(p)
        \/ Begin(p)
        \/ Execute(p)
        \/ InsertLedger(p)
        \/ Commit(p)

\* the callers and a database that answers every round trip
Spec == Init /\ [][Next]_vars

\* the same with transport failures
NextFaulty ==
    \/ Next
    \/ \E p \in Procs : DbFault(p)

SpecFaulty == Init /\ [][NextFaulty]_vars

\* the callers' programs built with embed! from their migrations directories
InitLoader ==
    /\ tableExists = FALSE
    /\ ledger = <<>>
    /\ tExists = FALSE
    /\ tRows = 0
    /\ effects = <<>>
    /\ pc = [p \in Procs |-> "idle"]
    /\ migrations = [p \in Procs |-> <<>>]
    /\ current = [p \in Procs |-> <<>>]
    /\ idx = [p \in Procs |-> 1]
    /\ stmtIdx = [p \in Procs |-> 1]
    /\ tx = [p \in Procs |-> NoTx]
    /\ result = [p \in Procs |-> "none"]
    /\ log = [p \in Procs |-> <<>>]
    /\ prev = [p \in Procs |-> "n/a"]
    /\ calls = 0
    /\ faults = 0
    \* the two callers are interchangeable
    /\ dir \in {f \in [Procs -> Dirs] : DirLeq(f["p1"], f["p2"])}
    /\ loader = [p \in Procs |-> "pending"]

NextLoader ==
    \/ Next
    \/ \E p \in Procs : Embed(p)

SpecLoader == InitLoader /\ [][NextLoader]_vars

TypeOK ==
    /\ tableExists \in BOOLEAN
    /\ tRows \in Nat
    /\ \A p \in Procs : pc[p] \in {"idle", "ensure", "load", "loop", "begin",
                                   "exec", "insert", "commit"}
    /\ \A p \in Procs : result[p] \in {"none", "Ok", "ChecksumError", "SQLXError"}
    /\ \A p \in Procs : loader[p] \in {"new", "pending", "built", "FilenameError",
                                       "ParseIntError", "IOError"}

\* ------------------------------------------------- vocabulary of the claims
Returned(p) == pc[p] = "idle" /\ result[p] # "none"

\* the events of the caller's current (or last) call with one of the ops
Events(p, ops) == {i \in 1..Len(log[p]) : log[p][i].op \in ops}

ApplyOps == {"begin", "exec", "insert", "commit"}

\* the call opened no transaction, ran no statement, inserted no ledger row
AppliedNothing(p) == Events(p, ApplyOps) = {}

NoFault(p) == Events(p, {"fault"}) = {}

UniqueVersions(l) ==
    \A i, j \in 1..Len(l) : l[i].version = l[j].version => i = j

\* nobody else has committed a migration since the caller's call loaded the
\* ledger: the ledger is what was loaded plus what the call committed
Undisturbed(p) ==
    Len(ledger) = Len(current[p]) + Cardinality(Events(p, {"commit"}))

Versions == {m.version : m \in Pool}

RowsOf(v) == {i \in 1..Len(ledger) : ledger[i].version = v}

\* the committed statements of the version's script, in commit order
EffectsOf(v) ==
    LET Mine(e) == e.version = v
    IN SelectSeq(effects, Mine)

Tagged(v, segs) == [i \in 1..Len(segs) |-> [version |-> v, stmt |-> segs[i]]]

\* what a migration commits when its script is applied once: its non-blank
\* segments, in order
ScriptEffects == [m \in Pool |-> Tagged(m.version, Statements(m.sql))]

\* the record a ledger row was written for: the checksum identifies the text
WrittenFor(r) ==
    CHOOSE m \in Pool : m.version = r.version /\ m.checksum = r.checksum

\* the positions of the caller's list whose version the loaded ledger holds
\* with another checksum
Mismatches(p) ==
    {k \in 1..Len(migrations[p]) :
        LET a == Find(current[p], migrations[p][k].version)
        IN a # <<>> /\ a[1].checksum # migrations[p][k].checksum}

Least(S) == CHOOSE k \in S : \A j \in S : k <= j

\* ----------------------------------------------------------------- claims

\* C1, as stated: for every list with unique versions, the second of two
\* migrate calls in succession on a fresh database applies nothing and
\* returns success.
C1_Original ==
    \A p \in Procs :
        (Returned(p) /\ prev[p] # "n/a" /\ UniqueVersions(migrations[p]))
        => (result[p] = "Ok" /\ AppliedNothing(p))

\* C1, amended: when the first call returned success, the second call with
\* the same list of unique versions opens no transaction, executes no
\* statement and inserts no ledger row, and it returns success.
C1_Idempotent ==
    \A p \in Procs :
        (prev[p] = "Ok" /\ UniqueVersions(migrations[p]))
        => /\ AppliedNothing(p)
           /\ Returned(p) => result[p] = "Ok"

C1_Witness ==
    \E p \in Procs :
        /\ prev[p] = "Ok" /\ Returned(p) /\ result[p] = "Ok"
        /\ Len(migrations[p]) = 2 /\ UniqueVersions(migrations[p])
        /\ Len(ledger) = 2 /\ AppliedNothing(p)

\* C2: applying one migration is all-or-nothing.  In every reachable
\* committed state a version has a ledger row exactly when all statements of
\* its script are committed, once and in order; a version without a row has
\* no committed statement; and table t holds what the committed statements
\* made of it.
C2_AllOrNothing ==
    /\ \A v \in Versions :
         IF RowsOf(v) = {} THEN EffectsOf(v) = <<>>
         ELSE \E i \in RowsOf(v) :
                 EffectsOf(v) = ScriptEffects[WrittenFor(ledger[i])]
    /\ tExists = (\E i \in 1..Len(effects) :
                    Trim(effects[i].stmt) \in {<<"C">>, <<"E">>})
    /\ tRows = Cardinality({i \in 1..Len(effects) :
                              Trim(effects[i].stmt) = <<"I">>})

\* a script whose first statement created t and whose second was rejected:
\* nothing of it is committed
C2_Witness ==
    \E p \in Procs :
        /\ Returned(p) /\ result[p] = "SQLXError" /\ NoFault(p)
        /\ Cardinality(Events(p, {"exec"})) = 2
        /\ Events(p, {"insert"}) = {}
        /\ ~tExists /\ effects = <<>> /\ ledger = <<>>

\* C3, as stated: a call whose loaded ledger holds a version of the list with
\* another checksum returns the checksum error, wherever that migration
\* stands in the list (no other call committing anything meanwhile).
C3_Original ==
    \A p \in Procs :
        (Returned(p) /\ Mismatches(p) # {} /\ Undisturbed(p))
        => result[p] = "ChecksumError"

\* C3, amended: the call returns the checksum error when its loop reaches
\* the first such migration, which it does unless a pending migration
\* earlier in the list failed with a database error; either way no
\* migration at or after that position is applied, and the call does not
\* return success.  The checksum error is returned in no other case.
C3_ChecksumGuard ==
    \A p \in Procs :
        /\ Mismatches(p) # {} =>
             LET k == Least(Mismatches(p))
             IN /\ idx[p] <= k
                /\ \A i \in Events(p, ApplyOps) : log[p][i].pos < k
                /\ Returned(p) =>
                     \/ result[p] = "ChecksumError" /\ idx[p] = k
                     \/ result[p] = "SQLXError" /\ idx[p] < k
        /\ (Returned(p) /\ result[p] = "ChecksumError") =>
             (Mismatches(p) # {} /\ idx[p] = Least(Mismatches(p)))

\* the mismatch stands at the second position of the list
C3_Witness ==
    \E p \in Procs :
        /\ Returned(p) /\ result[p] = "ChecksumError"
        /\ idx[p] = 2 /\ Mismatches(p) = {2}

\* the version at a position of the caller's list, and its place in the ledger
VersionAt(p, k) == migrations[p][k].version
IndexOf(v) == CHOOSE i \in 1..Len(ledger) : ledger[i].version = v

\* the positions the caller's call has committed, began
Committed(p) == {log[p][i].pos : i \in Events(p, {"commit"})}
Begun(p) == {log[p][i].pos : i \in Events(p, {"begin"})}

\* the call loaded the ledger and then failed, in the reconciliation loop,
\* at position idx[p]
FailedAt(p) ==
    /\ Returned(p) /\ result[p] \in {"ChecksumError", "SQLXError"}
    /\ Events(p, {"load"}) # {}

\* what C4 says of a state in which a call has failed at list position i
FailedCallState(p) ==
    FailedAt(p) =>
        LET i == idx[p]
        IN /\ i \in 1..Len(migrations[p])
           /\ \A k \in Committed(p) :
                 /\ k < i
                 /\ \E n \in 1..Len(ledger) :
                       ledger[n] = LedgerRow(migrations[p][k])
           /\ \A n \in 1..Len(current[p]) :
                 \E m \in 1..Len(ledger) :
                    /\ ledger[m].version = current[p][n].version
                    /\ ledger[m].checksum = current[p][n].checksum
           /\ tx[p] = NoTx
           /\ \A n \in 1..Len(log[p]) : log[p][n].pos <= i
           /\ \A m, n \in Events(p, {"begin"}) :
                 log[p][m].pos = log[p][n].pos => m = n

\* C4: a migrate call that failed at list position i leaves a well-defined
\* state.  The step on which the call fails changes nothing in the database
\* and closes the call's transaction, so the failing migration leaves no
\* statement and no ledger row behind; and from then on what the call
\* committed before, and what the ledger it loaded held, is still in the
\* ledger, no position after i was attempted, and no position was begun
\* twice.
C4_FailedCallState ==
    [][ \A p \in Procs :
          /\ FailedCallState(p)'
          /\ (pc[p] # "idle" /\ pc'[p] = "idle" /\ result'[p] # "Ok") =>
                /\ UNCHANGED dbVars
                /\ tx'[p] = NoTx
                /\ UNCHANGED idx
      ]_vars

\* the call committed position 1, then the script of position 2 was rejected
C4_Witness ==
    \E p \in Procs :
        /\ FailedAt(p) /\ result[p] = "SQLXError" /\ NoFault(p)
        /\ idx[p] = 2 /\ Committed(p) = {1} /\ Begun(p) = {1, 2}
        /\ Len(ledger) = 1

\* C5: each script is applied exactly once.  Whatever calls were made, the
\* ledger holds at most one row per version and the statements of a version
\* are committed at most once (none, or those of one script, once); after a
\* call that returned success every version of its list has exactly one row
\* and exactly the statements of the supplied script committed once, so t
\* holds one row when the list has v2.
C5_ExactlyOnce ==
    /\ \A v \in Versions :
         /\ Cardinality(RowsOf(v)) <= 1
         /\ EffectsOf(v) \in
              {<<>>} \cup {ScriptEffects[m] : m \in {x \in Pool : x.version = v}}
    /\ tRows <= 1
    /\ \A p \in Procs :
         (Returned(p) /\ result[p] = "Ok") =>
            \A k \in 1..Len(migrations[p]) :
               /\ Cardinality(RowsOf(VersionAt(p, k))) = 1
               /\ EffectsOf(VersionAt(p, k)) = ScriptEffects[migrations[p][k]]
               /\ VersionAt(p, k) = 2 => tRows = 1

\* the second call with [v1, v2] returned success and t holds one row
C5_Witness ==
    \E p \in Procs :
        /\ Returned(p) /\ result[p] = "Ok" /\ prev[p] = "Ok" /\ calls = 2
        /\ Len(migrations[p]) = 2
        /\ VersionAt(p, 1) = 1 /\ VersionAt(p, 2) = 2
        /\ tExists /\ tRows = 1 /\ Len(effects) = 3

\* the last operation of the caller's call was its ledger INSERT
EndedAtInsert(p) ==
    /\ Returned(p) /\ log[p] # <<>>
    /\ log[p][Len(log[p])].op = "insert"

C7_ListOrder ==
    \A p \in Procs :
        /\ \A m, n \in Events(p, {"begin"}) :
              m < n =>
                 /\ log[p][m].pos < log[p][n].pos
                 /\ \E c \in Events(p, {"commit"}) :
                       m < c /\ c < n /\ log[p][c].pos = log[p][m].pos
        /\ \A i, j \in Committed(p) :
              i < j =>
                 /\ RowsOf(VersionAt(p, i)) # {} /\ RowsOf(VersionAt(p, j)) # {}
                 /\ IndexOf(VersionAt(p, i)) < IndexOf(VersionAt(p, j))
        /\ tx[p].open => /\ pc[p] \in {"exec", "insert", "commit"}
                         /\ idx[p] \notin Committed(p)

\* a list not sorted by version: v2 at position 1 is committed before v1 at
\* position 2 is begun
C7_Witness ==
    \E p \in Procs :
        /\ Len(migrations[p]) = 2
        /\ VersionAt(p, 1) > VersionAt(p, 2)
        /\ 1 \in Committed(p) /\ 2 \in Begun(p)
        /\ ledger # <<>> /\ ledger[1].version = 2

\* C8: a call returns success only if every migration of its list was
\* skipped on an equal checksum or committed by the call, and then the
\* ledger holds a row with its version and its checksum.
C8_SuccessMeansAll ==
    \A p \in Procs :
        (Returned(p) /\ result[p] = "Ok") =>
            \A k \in 1..Len(migrations[p]) :
               /\ \/ k \in Committed(p)
                  \/ \E n \in 1..Len(current[p]) :
                        /\ current[p][n].version = VersionAt(p, k)
                        /\ current[p][n].checksum = migrations[p][k].checksum
               /\ \E n \in 1..Len(ledger) :
                     /\ ledger[n].version = VersionAt(p, k)
                     /\ ledger[n].checksum = migrations[p][k].checksum

\* success with one migration skipped and one applied
C8_Witness ==
    \E p \in Procs :
        /\ Returned(p) /\ result[p] = "Ok" /\ Len(migrations[p]) = 2
        /\ Len(current[p]) = 1 /\ Committed(p) = {2}

\* C9: migrate with an empty list on a database without the ledger table
\* (the first call made) creates the table and returns success having
\* applied nothing, the ledger empty.
C9_EmptyList ==
    \A p \in Procs :
        (migrations[p] = <<>> /\ Returned(p)) =>
            /\ result[p] = "Ok"
            /\ tableExists
            /\ AppliedNothing(p)
            /\ calls = 1 => ledger = <<>>

C9_Witness ==
    \E p \in Procs :
        /\ migrations[p] = <<>> /\ Returned(p) /\ calls = 1
        /\ result[p] = "Ok" /\ tableExists /\ ledger = <<>>
        /\ Events(p, {"ensure"}) # {}

\* C10: the ledger is append-only.  Every step leaves the rows there are
\* as they are, in place; a step adds at most one row, and only the commit
\* of an apply transaction adds one: the row of the migration it applied.
C10_AppendOnly ==
    [][ /\ Len(ledger') >= Len(ledger)
        /\ SubSeq(ledger', 1, Len(ledger)) = ledger
        /\ ledger' # ledger =>
              \E p \in Procs :
                 /\ pc[p] = "commit" /\ pc'[p] = "loop"
                 /\ ledger' = Append(ledger, LedgerRow(migrations[p][idx[p]]))
      ]_vars

\* with a row in the ledger, a later call ensured the table, loaded the
\* ledger, skipped the row's version and failed applying another
C10_Witness ==
    \E p \in Procs :
        /\ Returned(p) /\ result[p] = "SQLXError" /\ NoFault(p)
        /\ Len(current[p]) = 1 /\ Events(p, {"exec"}) # {}
        /\ idx[p] = 2 /\ Len(ledger) = 1
        /\ ledger[1].version = current[p][1].version

\* ------------------------------------------- vocabulary of the loader claims
DotSql == <<".", "s", "q", "l">>

\* the file name reads <digits>_<name>.sql, the digits being the number v
NamedFor(fn, v, name) ==
    LET n == Len(fn) - Len(name) - Len(DotSql) - 1
    IN /\ n >= 1
       /\ \A i \in 1..n : fn[i] \in Digits
       /\ DigitsValue(SubSeq(fn, 1, n)) = v
       /\ SubSeq(fn, n + 1, Len(fn)) = <<"_">> \o name \o DotSql

\* the record carries what the file says: version and name of the file name,
\* the text as sql, the digest of the text as checksum
LoadedFrom(m, e) ==
    /\ NamedFor(e.file_name, m.version, m.name)
    /\ e.readable /\ m.sql = e.sql
    /\ m.checksum = Sha256Hex(e.sql)

\* C11: after a migration was loaded from its file and applied, its ledger
\* row shows version, name and checksum as the record supplied them, the
\* record carrying the version and the name of the file name, the file's
\* text and the checksum of that text; no other row has the version.
C11_RowAsSupplied ==
    \A p \in Procs : \A k \in Committed(p) :
        LET m == migrations[p][k]
        IN /\ \E n \in 1..Len(ledger) :
                 ledger[n] = [version |-> m.version, name |-> m.name,
                              checksum |-> m.checksum]
           /\ Cardinality(RowsOf(m.version)) = 1
           /\ \E i \in 1..Len(dir[p]) : LoadedFrom(m, dir[p][i])

\* a directory of two files, loaded and applied: the rows are those of the
\* files 1_c.sql and 2_s.sql
C11_Witness ==
    \E p \in Procs :
        /\ Returned(p) /\ result[p] = "Ok" /\ Committed(p) = {1, 2}
        /\ ledger = << [version |-> 1, name |-> <<"c">>,
                        checksum |-> Sha256Hex(<<"E", ";">>)],
                       [version |-> 2, name |-> <<"s">>,
                        checksum |-> Sha256Hex(<<"E", ";", "I", ";">>)] >>

\* the database round trips of a call: a call standing at one of them ends
\* there only when the round trip failed
RoundTrips == {"ensure", "load", "begin", "exec", "insert", "commit"}

\* the loop stands at a migration whose version the loaded ledger holds with
\* another checksum
AtMismatch(p) ==
    /\ pc[p] = "loop" /\ idx[p] <= Len(migrations[p])
    /\ \E n \in 1..Len(current[p]) :
          /\ current[p][n].version = migrations[p][idx[p]].version
          /\ current[p][n].checksum # migrations[p][idx[p]].checksum

\* C12: no error is swallowed and each failure has its kind.  On the step
\* that ends a call: a call stopped by a checksum mismatch returns
\* ChecksumError; a call stopped at a database round trip (ensuring the
\* table, loading the ledger, begin, a script statement, the ledger insert,
\* the commit) returns SQLXError; and it returns Ok only from the end of the
\* loop, every round trip of the call having succeeded: no failure in its
\* history, every position begun committed.
C12_ErrorKinds ==
    [][ \A p \in Procs :
          (pc[p] # "idle" /\ pc'[p] = "idle") =>
             /\ AtMismatch(p) => result'[p] = "ChecksumError"
             /\ result'[p] = "ChecksumError" => AtMismatch(p)
             /\ pc[p] \in RoundTrips => result'[p] = "SQLXError"
             /\ result'[p] = "Ok" =>
                   /\ pc[p] = "loop" /\ idx[p] = Len(migrations[p]) + 1
                   /\ NoFault(p)'
                   /\ Begun(p)' = Committed(p)'
                   /\ tx[p] = NoTx
      ]_vars

\* calls that ended with the database error at each of the round trips: the
\* commit failed after the ledger insert, and a script statement was rejected
C12_Witness ==
    \E p, q \in Procs :
        /\ Returned(p) /\ result[p] = "SQLXError" /\ Len(log[p]) >= 2
        /\ log[p][Len(log[p])].op = "fault"
        /\ log[p][Len(log[p]) - 1].op = "insert"
        /\ Returned(q) /\ result[q] = "SQLXError" /\ NoFault(q)
        /\ log[q][Len(log[q])].op = "exec"

\* the loaded ledger holds the version of list position k with an equal
\* checksum
Matches(p, k) ==
    \E n \in 1..Len(current[p]) :
        /\ current[p][n].version = migrations[p][k].version
        /\ current[p][n].checksum = migrations[p][k].checksum

\* C13: a migration found in the loaded ledger with an equal checksum is
\* skipped as a no-op.  The step the loop takes at such a position changes
\* nothing in the database, opens no transaction, adds no database
\* operation to the call's history and moves the loop to the next position,
\* the call going on; and the call's history never holds an operation
\* (begin, statement, insert, commit) for such a position.  The name is no
\* part of the test.
C13_SkipIsNoOp ==
    [][ \A p \in Procs :
          /\ ( /\ pc[p] = "loop" /\ idx[p] <= Len(migrations[p])
               /\ Matches(p, idx[p])
               /\ <<pc[p], idx[p], tx[p], log[p], result[p]>>'
                     # <<pc[p], idx[p], tx[p], log[p], result[p]>> ) =>
                /\ UNCHANGED <<dbVars, tx, log, result, current, migrations>>
                /\ pc'[p] = "loop"
                /\ idx'[p] = idx[p] + 1
          /\ \A n \in Events(p, ApplyOps)' : ~Matches(p, log[p][n].pos)'
      ]_vars

\* a call has skipped a migration whose name is not the stored one, and
\* returned success having applied nothing
C13_Witness ==
    \E p \in Procs :
        /\ Returned(p) /\ result[p] = "Ok" /\ AppliedNothing(p)
        /\ Len(migrations[p]) = 1 /\ Matches(p, 1)
        /\ Len(ledger) = 1 /\ ledger[1].version = migrations[p][1].version
        /\ ledger[1].name # migrations[p][1].name

\* a segment with a character that is no whitespace
NonBlank(seg) == \E i \in 1..Len(seg) : seg[i] # " "

\* the segments between the ';' of each script that are not blank, in order
NonBlankSegments ==
    [m \in Pool |-> Tagged(m.version, SelectSeq(Split(m.sql), NonBlank))]

\* the place of an operation in the application of one migration
OpRank(op) ==
    CASE op = "begin" -> 1 [] op = "exec" -> 2 [] op = "insert" -> 3
      [] op = "commit" -> 4 [] OTHER -> 0

\* C14: applying a migration executes, inside its one transaction and from
\* left to right, exactly the segments between the ';' of its script that
\* are not blank; the ledger insert comes after the last of them and before
\* the commit.  While statements are left the transaction holds a proper
\* prefix of these segments and no ledger row; at the insert it holds all
\* of them; at the commit all of them and the row.  The operations of one
\* position stand in the call's history as begin, statements, insert,
\* commit; and no blank statement is ever committed.
C14_StatementsInOrder ==
    /\ \A p \in Procs :
          /\ tx[p].open =>
                LET all == NonBlankSegments[migrations[p][idx[p]]]
                    done == tx[p].stmts
                IN /\ Len(done) <= Len(all)
                   /\ done = SubSeq(all, 1, Len(done))
                   /\ pc[p] = "exec" => (Len(done) < Len(all) /\ tx[p].ins = <<>>)
                   /\ pc[p] = "insert" => (done = all /\ tx[p].ins = <<>>)
                   /\ pc[p] = "commit" =>
                         (done = all /\ tx[p].ins = <<LedgerRow(migrations[p][idx[p]])>>)
          /\ \A m, n \in Events(p, ApplyOps) :
                (m < n /\ log[p][m].pos = log[p][n].pos) =>
                   \/ OpRank(log[p][m].op) < OpRank(log[p][n].op)
                   \/ log[p][m].op = "exec" /\ log[p][n].op = "exec"
          /\ \A n \in Events(p, {"insert"}) :
                Cardinality({e \in Events(p, {"exec"}) :
                               log[p][e].pos = log[p][n].pos})
                   = Len(NonBlankSegments[migrations[p][log[p][n].pos]])
    /\ \A i \in 1..Len(effects) : NonBlank(effects[i].stmt)

\* " C; " and "E;I;" were applied: of the two and three segments of the
\* scripts, one and two were executed
C14_Witness ==
    \E p \in Procs :
        /\ Returned(p) /\ result[p] = "Ok" /\ Committed(p) = {1, 2}
        /\ Len(Split(migrations[p][1].sql)) = 2
        /\ Len(Split(migrations[p][2].sql)) = 3
        /\ effects = << [version |-> 1, stmt |-> <<" ", "C">>],
                        [version |-> 2, stmt |-> <<"E">>],
                        [version |-> 2, stmt |-> <<"I">>] >>

\* the list is in ascending order of version
Ascending(l) == \A i, j \in 1..Len(l) : i < j => l[i].version <= l[j].version

\* the list holds one record for each entry of the directory
OneForEach(l, d) ==
    /\ Len(l) = Len(d)
    /\ \A i \in 1..Len(d) : \E k \in 1..Len(l) : LoadedFrom(l[k], d[i])
    /\ \A k \in 1..Len(l) : \E i \in 1..Len(d) : LoadedFrom(l[k], d[i])

\* C15: the loader hands the Migrator the records of the directory sorted
\* ascending by version, in whatever order the entries were enumerated; the
\* Migrator never changes the list it was given and walks it from the
\* first position on; so a Migrator built by the loader begins, and commits,
\* the pending migrations in ascending order of version.
C15_LoaderSorts ==
    [][ \A p \in Procs :
          /\ (loader[p] # "built" /\ loader'[p] = "built") =>
                /\ Ascending(migrations'[p])
                /\ OneForEach(migrations'[p], dir'[p])
          /\ loader[p] = "built" => migrations'[p] = migrations[p]
          /\ \A m, n \in Events(p, {"begin"})' :
                m < n => /\ log'[p][m].pos < log'[p][n].pos
                         /\ VersionAt(p, log[p][m].pos)'
                               <= VersionAt(p, log[p][n].pos)'
          /\ \A i, j \in Committed(p)' :
                i < j => IndexOf(VersionAt(p, i))' < IndexOf(VersionAt(p, j))'
      ]_vars

\* the directory was enumerated 2_s.sql first, 1_c.sql second; the call
\* committed version 1 before version 2
C15_Witness ==
    \E p \in Procs :
        /\ loader[p] = "built" /\ Len(dir[p]) = 2
        /\ dir[p][1].file_name = <<"2", "_", "s", ".", "s", "q", "l">>
        /\ dir[p][2].file_name = <<"1", "_", "c", ".", "s", "q", "l">>
        /\ Committed(p) = {1, 2} /\ Returned(p) /\ result[p] = "Ok"
        /\ Len(ledger) = 2 /\ ledger[1].version = 1 /\ ledger[2].version = 2

Lowercase ==
    {"a", "b", "c", "d", "e", "f", "g", "h", "i", "j", "k", "l", "m", "n",
     "o", "p", "q", "r", "s", "t", "u", "v", "w", "x", "y", "z"}

\* the file name has the shape <digits>_<lowercase/underscore name>.sql
HasShape(fn) ==
    \E n \in 1..Len(fn) : \E k \in 1..Len(fn) :
        /\ Len(fn) = n + 1 + k + Len(DotSql)
        /\ \A i \in 1..n : fn[i] \in Digits
        /\ fn[n + 1] = "_"
        /\ \A i \in (n + 2)..(n + 1 + k) : fn[i] \in Lowercase \/ fn[i] = "_"
        /\ SubSeq(fn, n + 2 + k, Len(fn)) = DotSql

\* the digits before the first "_" are a number an i64 holds
VersionFits(fn) ==
    LET n == CHOOSE i \in 1..Len(fn) : fn[i] = "_" /\ \A j \in 1..(i - 1) : fn[j] # "_"
        d == StripZeros(SubSeq(fn, 1, n - 1))
    IN \/ Len(d) < Len(I64MaxDigits)
       \/ Len(d) = Len(I64MaxDigits) /\ ~DigitsGreater(d, I64MaxDigits)

\* an input-shape error: the name has not the shape, or its version does not
\* parse as an integer
ShapeErrors ==
    {e \in {Files[i] : i \in 1..Len(Files)} :
        ~HasShape(e.file_name) \/ ~VersionFits(e.file_name)}

ShapeError(e) == e \in ShapeErrors

LoaderErrors == {"FilenameError", "ParseIntError", "IOError"}

\* C16: an input-shape error fails fast, before any database interaction.
\* A caller whose directory holds an entry with such an error never gets a
\* Migrator: the loader stops with an error (FilenameError or ParseIntError
\* when the first entry that fails is the one with that error), the caller
\* makes no migrate call, so it creates no ledger table, reads no ledger and
\* executes no statement; and when every caller has such a directory the
\* database stays untouched.
C16_ShapeErrorFailsFast ==
    /\ \A p \in Procs :
          LET bad == {i \in 1..Len(dir[p]) : ShapeError(dir[p][i])}
              first == {i \in bad : \A j \in 1..(i - 1) :
                                       j \notin bad /\ dir[p][j].readable}
          IN bad # {} =>
                /\ loader[p] \in {"pending"} \cup LoaderErrors
                /\ (first # {} /\ loader[p] # "pending") =>
                      loader[p] = (IF \E i \in first : ~HasShape(dir[p][i].file_name)
                                   THEN "FilenameError" ELSE "ParseIntError")
                /\ migrations[p] = <<>> /\ pc[p] = "idle" /\ result[p] = "none"
                /\ log[p] = <<>> /\ current[p] = <<>> /\ tx[p] = NoTx
    /\ (\A p \in Procs : \E i \in 1..Len(dir[p]) : ShapeError(dir[p][i])) =>
          /\ ~tableExists /\ ledger = <<>> /\ ~tExists /\ effects = <<>>
          /\ calls = 0

\* one loader stopped at a name in upper case that stands second in its
\* directory, the other at a version above i64::MAX: nothing was done to
\* the database
C16_Witness ==
    \E p, q \in Procs :
        /\ loader[p] = "FilenameError" /\ Len(dir[p]) = 2
        /\ ~ShapeError(dir[p][1]) /\ ~HasShape(dir[p][2].file_name)
        /\ loader[q] = "ParseIntError"
        /\ ~tableExists /\ calls = 0

\* the caller's call has loaded the ledger, and the list holds the same
\* version at the positions i < j, a version the loaded ledger does not hold
Duplicate(p, i, j) ==
    /\ Events(p, {"load"}) # {}
    /\ i \in 1..Len(migrations[p]) /\ j \in 1..Len(migrations[p])
    /\ i < j /\ VersionAt(p, i) = VersionAt(p, j)
    /\ \A n \in 1..Len(current[p]) : current[p][n].version # VersionAt(p, i)

Positions(p) == 1..Len(migrations[p])

\* C17, as stated: for every such list (no other call committing anything
\* meanwhile) migrate commits the first record, the second fails on the
\* primary-key conflict of its ledger insert, the call returns the database
\* error and exactly one row of the version exists, with the first record's
\* checksum.
C17_Original ==
    \A p \in Procs :
        (Returned(p) /\ Undisturbed(p) /\ Len(migrations[p]) = 2
         /\ Duplicate(p, 1, 2)) =>
            /\ result[p] = "SQLXError"
            /\ Committed(p) = {1} /\ EndedAtInsert(p) /\ idx[p] = 2
            /\ \E n \in 1..Len(ledger) :
                  /\ RowsOf(VersionAt(p, 1)) = {n}
                  /\ ledger[n].checksum = migrations[p][1].checksum

\* C17, amended: the ledger is loaded once and not refreshed.  For a list
\* with the same version at positions i < j, absent from the loaded ledger:
\* position j is begun only after position i was committed, and it is then
\* attempted, neither skipped nor compared; it is never committed; a call
\* that ends at j returns the database error, rolled back, having failed
\* at a statement of the script or, its statements accepted, at the ledger
\* insert on the committed row of the version; the call never returns
\* success, nor the checksum error at i or j; and the version has one row
\* at most, with the first record's checksum when the call committed it.
C17_DuplicateVersion ==
    \A p \in Procs : \A i, j \in Positions(p) :
        Duplicate(p, i, j) =>
            LET v == VersionAt(p, i)
            IN /\ j \notin Committed(p)
               /\ (idx[p] > i \/ j \in Begun(p)) => i \in Committed(p)
               /\ idx[p] <= j
               /\ Returned(p) =>
                     /\ result[p] # "Ok"
                     /\ result[p] = "ChecksumError" => idx[p] \notin {i, j}
                     /\ idx[p] = j =>
                           /\ result[p] = "SQLXError" /\ tx[p] = NoTx
                           /\ j \in Begun(p)
                           /\ log[p][Len(log[p])].op \in {"exec", "insert"}
                           /\ EndedAtInsert(p) => KeyTaken(v)
               /\ Cardinality(RowsOf(v)) <= 1
               /\ i \in Committed(p) =>
                     \E n \in RowsOf(v) :
                        ledger[n].checksum = migrations[p][i].checksum

\* the list holds "E;I;" of version 2 twice: the first was committed, the
\* second ran its statements and met the row at its ledger insert
C17_Witness ==
    \E p \in Procs :
        /\ Returned(p) /\ Duplicate(p, 1, 2) /\ result[p] = "SQLXError"
        /\ Committed(p) = {1} /\ Begun(p) = {1, 2} /\ EndedAtInsert(p)
        /\ Cardinality(RowsOf(2)) = 1 /\ tRows = 1

\* the loaded ledger holds the version of list position k
Loaded(p, k) ==
    \E n \in 1..Len(current[p]) : current[p][n].version = VersionAt(p, k)

\* C18: checksums are verified lazily, one migration at a time in list
\* order.  When a call has returned the checksum error at list position i,
\* the loaded ledger holds the version of i with another checksum; every
\* position before i that was pending has been committed by this call and
\* its row is in the ledger; every position before i that was in the
\* loaded ledger had an equal checksum and was skipped; and nothing was
\* attempted at i or after it.
C18_LazyChecksums ==
    \A p \in Procs :
        (Returned(p) /\ result[p] = "ChecksumError") =>
            LET i == idx[p]
            IN /\ i \in Positions(p)
               /\ Loaded(p, i) /\ ~Matches(p, i)
               /\ \A k \in 1..(i - 1) :
                     IF Loaded(p, k)
                     THEN Matches(p, k) /\ k \notin Begun(p)
                     ELSE /\ k \in Committed(p)
                          /\ \E n \in 1..Len(ledger) :
                                /\ ledger[n].version = VersionAt(p, k)
                                /\ ledger[n].checksum = migrations[p][k].checksum
               /\ \A n \in 1..Len(log[p]) : log[p][n].pos < i

\* an edited 2_s.sql stands after the pending 1_c.sql: version 1 was
\* committed by the call that then returned the checksum error at position 2
C18_Witness ==
    \E p \in Procs :
        /\ Returned(p) /\ result[p] = "ChecksumError" /\ idx[p] = 2
        /\ Committed(p) = {1} /\ ~Loaded(p, 1)
        /\ Len(ledger) = 2 /\ ledger[1].version = 2 /\ ledger[2].version = 1
        /\ ledger[1].checksum # migrations[p][2].checksum

\* the call has loaded the ledger and every record of its list is in it
\* with an equal checksum
SubsetOfLedger(p) ==
    /\ Events(p, {"load"}) # {}
    /\ \A k \in Positions(p) : Matches(p, k)

\* the versions of the caller's list
ListVersions(p) == {VersionAt(p, k) : k \in Positions(p)}

\* C19: reconciliation is driven by the supplied list only.  A call whose
\* list is a checksum-matching subset of the ledger it loaded changes
\* nothing in the database on any of its steps, records no apply operation
\* and returns success, whatever other rows the ledger holds; a call that
\* fails fails at a position of its list, the checksum error being for a
\* row whose version stands at that position; and no step changes a ledger
\* row whose version is not in the list.
C19_ListDriven ==
    [][ \A p \in Procs :
          /\ (SubsetOfLedger(p) /\ <<pc[p], idx[p]>>' # <<pc[p], idx[p]>>) =>
                /\ UNCHANGED dbVars
                /\ AppliedNothing(p)'
                /\ pc'[p] = "idle" => result'[p] = "Ok"
          /\ (Returned(p)' /\ result'[p] # "Ok" /\ Events(p, {"load"})' # {}) =>
                /\ idx'[p] \in Positions(p)
                /\ result'[p] = "ChecksumError" =>
                      (Loaded(p, idx[p])' /\ ~Matches(p, idx[p])')
          /\ \A n \in 1..Len(ledger) :
                ledger[n].version \notin ListVersions(p) =>
                   (Len(ledger') >= n /\ ledger'[n] = ledger[n])
      ]_vars

\* the ledger holds versions 1 and 2; a call with the list of version 2
\* alone returned success having applied nothing
C19_Witness ==
    \E p \in Procs :
        /\ Returned(p) /\ result[p] = "Ok" /\ SubsetOfLedger(p)
        /\ Len(migrations[p]) = 1 /\ VersionAt(p, 1) = 2
        /\ Len(current[p]) = 2 /\ Len(ledger) = 2 /\ AppliedNothing(p)
        /\ \E n \in 1..2 : ledger[n].version \notin ListVersions(p)

====
